---- MODULE Spec2Model ----
(***************************************************************************)
(* A model of the Express application bootstrap of src/app.js: the CORS    *)
(* origin predicate, the middleware/route stack built by start, the        *)
(* request walk through that stack, connection tracking and stop.          *)
(***************************************************************************)
EXTENDS Integers, Sequences, FiniteSets, TLC

VARIABLES
    config,         \* the configuration snapshot read by every component
    corsOrigin,     \* the Origin header handed to the cors origin callback
    corsCallback,   \* what the origin callback was called back with
    stack,          \* this.app: the stages installed by app.use/get/all, in order
    connections,    \* this.connections: a Set, kept in insertion order
    isShuttingDown, \* this.isShuttingDown
    startPc,        \* where the call of start() is
    startErr,       \* the error start() rethrew
    begun,          \* the startup stages start() has entered
    completed,      \* the startup stages start() has left normally
    stopPc,         \* where each call of stop() is
    stopErr,        \* the error a call of stop() rethrew
    db,             \* how often Database.connect and Database.close were invoked
    req             \* the requests and their response handles

corsVars == <<corsOrigin, corsCallback>>
startVars == <<startPc, startErr, begun, completed>>
stopVars == <<stopPc, stopErr>>
vars == <<config, corsOrigin, corsCallback, stack, connections, isShuttingDown,
          startPc, startErr, begun, completed, stopPc, stopErr, db, req>>

(***************************************************************************)
(* Bounds of the model.                                                    *)
(***************************************************************************)
MaxDigits == 2
MaxStops == 2
MaxRequests == 2

(***************************************************************************)
(* Strings are sequences of one-character strings, so that trimming and    *)
(* regular-expression matching work on characters as they do in the code.  *)
(***************************************************************************)
Undefined == [defined |-> FALSE, chars |-> <<>>]
Str(s) == [defined |-> TRUE, chars |-> s]

Whitespace == {" ", "\t", "\n"}
Digit == {"0", "1", "2", "3", "4", "5", "6", "7", "8", "9"}

RECURSIVE TrimStart(_)
TrimStart(s) ==
    IF s # <<>> /\ Head(s) \in Whitespace THEN TrimStart(Tail(s)) ELSE s

RECURSIVE TrimEnd(_)
TrimEnd(s) ==
    IF s # <<>> /\ s[Len(s)] \in Whitespace
    THEN TrimEnd(SubSeq(s, 1, Len(s) - 1))
    ELSE s

\* String.prototype.trim
Trim(s) == TrimEnd(TrimStart(s))

(***************************************************************************)
(* Regular expressions, as sequences of elements matched from ^ to $.      *)
(***************************************************************************)
Lit(c) == [t |-> "lit", c |-> c, g |-> <<>>]
Opt(c) == [t |-> "opt", c |-> c, g |-> <<>>]
Digits1 == [t |-> "digits", c |-> "", g |-> <<>>]
OptGroup(g) == [t |-> "optgroup", c |-> "", g |-> g]
Lits(s) == [i \in 1..Len(s) |-> Lit(s[i])]

\* RegExp.prototype.test for an anchored pattern ^p$
RECURSIVE ReTest(_, _)
ReTest(p, s) ==
    IF p = <<>> THEN s = <<>>
    ELSE LET e == Head(p)
             rest == Tail(p)
         IN CASE e.t = "lit" ->
                    s # <<>> /\ Head(s) = e.c /\ ReTest(rest, Tail(s))
              [] e.t = "opt" ->
                    \/ s # <<>> /\ Head(s) = e.c /\ ReTest(rest, Tail(s))
                    \/ ReTest(rest, s)
              [] e.t = "digits" ->
                    \E k \in 1..Len(s) :
                        /\ \A i \in 1..k : s[i] \in Digit
                        /\ ReTest(rest, SubSeq(s, k + 1, Len(s)))
              [] e.t = "optgroup" ->
                    \/ ReTest(e.g \o rest, s)
                    \/ ReTest(rest, s)

\* https?:\/\/
ReScheme == Lits(<<"h", "t", "t", "p">>) \o <<Opt("s")>> \o Lits(<<":", "/", "/">>)
\* (:\d+)?
RePort == <<OptGroup(<<Lit(":"), Digits1>>)>>

\* /^https?:\/\/localhost(:\d+)?$/
ReLocalhost ==
    ReScheme \o Lits(<<"l", "o", "c", "a", "l", "h", "o", "s", "t">>) \o RePort
\* /^https?:\/\/127\.0\.0\.1(:\d+)?$/
ReLoopback ==
    ReScheme \o Lits(<<"1", "2", "7", ".", "0", ".", "0", ".", "1">>) \o RePort
\* /^https?:\/\/10\.0\.0\.\d+(:\d+)?$/
ReLan ==
    ReScheme \o Lits(<<"1", "0", ".", "0", ".", "0", ".">>) \o <<Digits1>> \o RePort

\* const isLocalhost = ... || ... || ...
IsLocalhost(s) == ReTest(ReLocalhost, s) \/ ReTest(ReLoopback, s) \/ ReTest(ReLan, s)

(***************************************************************************)
(* The cors origin callback.                                               *)
(***************************************************************************)
\* Array.isArray(origins) ? origins : [origins].filter(Boolean)
AllowedOrigins(origins) ==
    IF origins.isArray THEN origins.list
    ELSE IF origins.value.defined /\ origins.value.chars # <<>>
         THEN <<origins.value.chars>>
         ELSE <<>>

\* allowedOrigins.map(o => o.trim())
TrimmedAllowedOrigins(origins) ==
    LET a == AllowedOrigins(origins) IN [i \in 1..Len(a) |-> Trim(a[i])]

\* trimmedAllowedOrigins.includes(trimmedIncomingOrigin)
Includes(list, x) == \E i \in 1..Len(list) : list[i] = x

CorsAllow == [called |-> TRUE, error |-> "", allow |-> TRUE]
CorsError == [called |-> TRUE, error |-> "Not allowed by CORS", allow |-> FALSE]

\* origin: (origin, callback) => { ... }: what callback is called with
CorsOriginNoTrim(origin, cfg) ==
    IF ~origin.defined \/ origin.chars = <<>> THEN CorsAllow
    ELSE IF Includes(TrimmedAllowedOrigins(cfg.cors.origins), origin.chars)
         THEN CorsAllow
    ELSE IF cfg.env = "development" /\ IsLocalhost(origin.chars) THEN CorsAllow
    ELSE CorsError

\* the development fallback taken in every environment but production
CorsOriginNonProduction(origin, cfg) ==
    IF ~origin.defined \/ origin.chars = <<>> THEN CorsAllow
    ELSE LET trimmedIncomingOrigin == Trim(origin.chars) IN
         IF Includes(TrimmedAllowedOrigins(cfg.cors.origins), trimmedIncomingOrigin)
         THEN CorsAllow
         ELSE IF cfg.env # "production" /\ IsLocalhost(trimmedIncomingOrigin)
              THEN CorsAllow
              ELSE CorsError

CorsOrigin(origin, cfg) ==
    IF ~origin.defined \/ origin.chars = <<>> THEN CorsAllow
    ELSE LET trimmedIncomingOrigin == Trim(origin.chars) IN
         IF Includes(TrimmedAllowedOrigins(cfg.cors.origins), trimmedIncomingOrigin)
         THEN CorsAllow
         ELSE IF cfg.env = "development" /\ IsLocalhost(trimmedIncomingOrigin)
              THEN CorsAllow
              ELSE CorsError

(***************************************************************************)
(* Inputs of the CORS specification.                                       *)
(***************************************************************************)
Http == <<"h", "t", "t", "p">>
Https == <<"h", "t", "t", "p", "s">>
Sep == <<":", "/", "/">>
Localhost == <<"l", "o", "c", "a", "l", "h", "o", "s", "t">>
Loopback == <<"1", "2", "7", ".", "0", ".", "0", ".", "1">>
LanPrefix == <<"1", "0", ".", "0", ".", "0", ".">>
AppHost == <<"a", "p", "p", ".", "e", "x", ".", "c", "o", "m">>

DigitStrings ==
    UNION {[1..n -> {"3", "8"}] : n \in 1..MaxDigits}

HostInputs ==
    {Localhost, Localhost \o <<"s">>, Loopback, AppHost, LanPrefix,
     <<"1", "2", "7", "a", "0", ".", "0", ".", "1">>,
     <<"1", "9", "2", ".", "1", "6", "8", ".", "1", ".", "5">>}
    \cup {LanPrefix \o d : d \in DigitStrings}

PortInputs ==
    {<<>>, <<":">>, <<":", "x">>} \cup {<<":">> \o d : d \in DigitStrings}

OriginInputs ==
    {Undefined, Str(<<>>), Str(<<" ">>)}
    \cup {Str(pad \o scheme \o Sep \o host \o port \o tail) :
            pad \in {<<>>, <<" ">>},
            scheme \in {Http, Https, <<"f", "t", "p">>},
            host \in HostInputs,
            port \in PortInputs,
            tail \in {<<>>, <<"/">>, <<"\n">>}}

OriginsInputs ==
    {[isArray |-> TRUE, list |-> <<>>, value |-> Undefined],
     [isArray |-> TRUE,
      list |-> <<Https \o Sep \o AppHost,
                 <<" ">> \o Http \o Sep \o Localhost \o <<"s", ":", "3", " ">>>>,
      value |-> Undefined],
     [isArray |-> TRUE, list |-> <<<<" ">>>>, value |-> Undefined],
     [isArray |-> FALSE, list |-> <<>>, value |-> Str(Https \o Sep \o AppHost \o <<"\t">>)],
     [isArray |-> FALSE, list |-> <<>>, value |-> Undefined]}

(***************************************************************************)
(* The application instance.                                               *)
(***************************************************************************)
StopCalls == 1..MaxStops
Requests == 1..MaxRequests

\* the configuration snapshot, as far as app.js reads it
DefaultConfig ==
    [env |-> "development",
     helmet |-> [enabled |-> TRUE],
     cors |-> [enabled |-> TRUE,
               origins |-> [isArray |-> TRUE,
                            list |-> <<Https \o Sep \o AppHost>>,
                            value |-> Undefined]],
     sanitize |-> [enabled |-> TRUE],
     logging |-> [enabled |-> TRUE],
     session |-> [idleTimeout |-> TRUE]]

NoError == [name |-> "", status |-> 0, message |-> <<>>]

\* a request that has not arrived
NoRequest ==
    [st |-> "none", method |-> "", path |-> "", origin |-> Undefined,
     idx |-> 0, listener |-> FALSE, endCalls |-> 0, status |-> 0,
     bodyStatus |-> "", by |-> "", err |-> NoError, dbReady |-> "unasked"]

\* constructor()
InitApplication ==
    /\ stack = <<>>
    /\ connections = <<>>
    /\ isShuttingDown = FALSE
    /\ startPc = "idle"
    /\ startErr = ""
    /\ begun = {}
    /\ completed = {}
    /\ stopPc = [c \in StopCalls |-> "idle"]
    /\ stopErr = [c \in StopCalls |-> ""]
    /\ db = [connectCalls |-> 0, closeCalls |-> 0]
    /\ req = [r \in Requests |-> NoRequest]

EnvInputs == {"development", "production", "test"}

CorsConfigs ==
    {[DefaultConfig EXCEPT !.env = e, !.cors.origins = o] :
        e \in EnvInputs, o \in OriginsInputs}

InitCors ==
    /\ config \in CorsConfigs
    /\ corsOrigin \in OriginInputs
    /\ corsCallback = [called |-> FALSE, error |-> "", allow |-> FALSE]
    /\ InitApplication

\* the request with Origin header corsOrigin reaches the cors middleware
CorsRequest ==
    /\ config.cors.enabled
    /\ ~corsCallback.called
    /\ corsCallback' = CorsOrigin(corsOrigin, config)
    /\ UNCHANGED <<config, corsOrigin, stack, connections, isShuttingDown,
                   startVars, stopVars, db, req>>

NextCors == CorsRequest

SpecCors == InitCors /\ [][NextCors]_vars

(***************************************************************************)
(* C1: the origin callback allows R iff R is absent or empty, or trim(R)   *)
(* equals trim(o) for some configured origin o, or the environment is      *)
(* development and trim(R) is http(s)://localhost, http(s)://127.0.0.1 or  *)
(* http(s)://10.0.0.N with an optional :port; in every other case it is    *)
(* called back with the error 'Not allowed by CORS'.                       *)
(***************************************************************************)
AllDigits(s) == s # <<>> /\ \A i \in 1..Len(s) : s[i] \in Digit

\* s is host, or host:port, for a host of the three development forms
DevHostPort(s) ==
    \E n \in 1..Len(s) :
        LET host == SubSeq(s, 1, n)
            port == SubSeq(s, n + 1, Len(s))
        IN /\ \/ host = Localhost
              \/ host = Loopback
              \/ /\ Len(host) > Len(LanPrefix)
                 /\ SubSeq(host, 1, Len(LanPrefix)) = LanPrefix
                 /\ AllDigits(SubSeq(host, Len(LanPrefix) + 1, Len(host)))
           /\ \/ port = <<>>
              \/ Len(port) >= 2 /\ Head(port) = ":" /\ AllDigits(Tail(port))

DevOriginForm(s) ==
    \E scheme \in {Http, Https} :
        /\ Len(s) > Len(scheme \o Sep)
        /\ SubSeq(s, 1, Len(scheme \o Sep)) = scheme \o Sep
        /\ DevHostPort(SubSeq(s, Len(scheme \o Sep) + 1, Len(s)))

CorsShouldAllow(R, cfg) ==
    \/ ~R.defined
    \/ R.chars = <<>>
    \/ \E i \in 1..Len(AllowedOrigins(cfg.cors.origins)) :
          Trim(R.chars) = Trim(AllowedOrigins(cfg.cors.origins)[i])
    \/ cfg.env = "development" /\ DevOriginForm(Trim(R.chars))

C1_CorsPredicate ==
    corsCallback.called =>
        /\ corsCallback.allow <=> CorsShouldAllow(corsOrigin, config)
        /\ ~corsCallback.allow <=> corsCallback.error = "Not allowed by CORS"

\* a padded 10.0.0.N origin that is not on the allow-list was allowed in
\* development
C1_Witness ==
    /\ corsCallback.called
    /\ corsCallback.allow
    /\ config.env = "development"
    /\ corsOrigin.defined
    /\ corsOrigin.chars # Trim(corsOrigin.chars)
    /\ ReTest(ReLan, Trim(corsOrigin.chars))
    /\ ~Includes(TrimmedAllowedOrigins(config.cors.origins), Trim(corsOrigin.chars))

(***************************************************************************)
(* Startup: start() and initialize().  The model follows one call of       *)
(* start() on the application instance.                                    *)
(***************************************************************************)
When(cond, names) == IF cond THEN names ELSE <<>>

\* setupMiddleware(), up to the request logging
MiddlewareBeforeSession(cfg) ==
    When(cfg.helmet.enabled, <<"helmet">>)
    \o When(cfg.cors.enabled, <<"cors">>)
    \o <<"json", "urlencoded">>
    \o When(cfg.sanitize.enabled, <<"mongoSanitize">>)
    \o <<"cookieParser", "compression">>
    \o <<"methodOverride:_method", "methodOverride:header">>
    \o <<"static:/uploads", "static:/public">>
    \o When(cfg.logging.enabled, <<"httpLogger">>)
    \o When(cfg.logging.enabled /\ cfg.env = "development", <<"morgan">>)

\* setupMiddleware(), from the session middleware to the connection tracking
MiddlewareFromSessionTrackEarly(cfg) ==
    <<"session", "flash", "flashLocals", "sessionSecurity", "sessionActivity">>
    \o <<"track">>
    \o When(cfg.session.idleTimeout, <<"idleTimeout">>)

MiddlewareFromSession(cfg) ==
    <<"session", "flash", "flashLocals", "sessionSecurity", "sessionActivity">>
    \o When(cfg.session.idleTimeout, <<"idleTimeout">>)
    \o <<"track">>

SetupMiddleware(cfg) == MiddlewareBeforeSession(cfg) \o MiddlewareFromSession(cfg)

\* setupPassport(), after passportConfig.initialize(this.app) has resolved
SetupPassport == <<"passport", "authState">>

\* setupRoutes()
SetupRoutes(cfg) ==
    <<"api", "docs", "GET /health", "GET /session-check">>
    \o When(cfg.env = "development", <<"GET /session-debug">>)
    \o <<"GET /", "all *">>

\* setupErrorHandling()
SetupErrorHandling == <<"notFoundHandler", "errorHandler">>

RouteStages ==
    {"api", "docs", "GET /health", "GET /session-check", "GET /session-debug",
     "GET /", "all *"}
ErrorStages == {"notFoundHandler", "errorHandler"}

\* start() with Database.connect() invoked and not awaited
StartCallNoAwait ==
    /\ startPc = "idle"
    /\ db' = [db EXCEPT !.connectCalls = @ + 1]
    /\ stack' = stack \o SetupMiddleware(config)
    /\ begun' = begun \cup {"connect", "middleware", "passport"}
    /\ completed' = completed \cup {"middleware"}
    /\ startPc' = "awaitPassport"
    /\ UNCHANGED <<config, corsVars, connections, isShuttingDown, startErr,
                   stopVars, req>>

\* start() is called: it invokes Database.connect() and awaits it
StartCall ==
    /\ startPc = "idle"
    /\ db' = [db EXCEPT !.connectCalls = @ + 1]
    /\ begun' = begun \cup {"connect"}
    /\ startPc' = "awaitConnect"
    /\ UNCHANGED <<config, corsVars, stack, connections, isShuttingDown,
                   startErr, completed, stopVars, req>>

\* Database.connect() rejects: start() logs and rethrows
ConnectReject ==
    /\ startPc = "awaitConnect"
    /\ startPc' = "failed"
    /\ startErr' = "connect"
    /\ UNCHANGED <<config, corsVars, stack, connections, isShuttingDown,
                   begun, completed, stopVars, db, req>>

\* Database.connect() resolves: initialize() runs setupMiddleware() and
\* setupPassport() invokes passportConfig.initialize(this.app) and awaits it;
\* when a middleware factory throws (ok = FALSE, at the session middleware)
\* start() logs and rethrows
ConnectResolve(ok) ==
    /\ startPc = "awaitConnect"
    /\ IF ok
       THEN /\ stack' = stack \o SetupMiddleware(config)
            /\ begun' = begun \cup {"middleware", "passport"}
            /\ completed' = completed \cup {"connect", "middleware"}
            /\ startPc' = "awaitPassport"
            /\ UNCHANGED startErr
       ELSE /\ stack' = stack \o MiddlewareBeforeSession(config)
            /\ begun' = begun \cup {"middleware"}
            /\ completed' = completed \cup {"connect"}
            /\ startPc' = "failed"
            /\ startErr' = "middleware"
    /\ UNCHANGED <<config, corsVars, connections, isShuttingDown, stopVars, db, req>>

\* setupPassport() logging the rejection and not rethrowing it
PassportRejectSwallowed ==
    /\ startPc = "awaitPassport"
    /\ stack' = stack \o <<"authState">> \o SetupRoutes(config) \o SetupErrorHandling
    /\ begun' = begun \cup {"routes", "errors"}
    /\ completed' = completed \cup {"routes", "errors"}
    /\ startPc' = "done"
    /\ UNCHANGED <<config, corsVars, connections, isShuttingDown, startErr,
                   stopVars, db, req>>

\* passportConfig.initialize() rejects: setupPassport() logs and rethrows,
\* start() logs and rethrows
PassportReject ==
    /\ startPc = "awaitPassport"
    /\ startPc' = "failed"
    /\ startErr' = "passport"
    /\ UNCHANGED <<config, corsVars, stack, connections, isShuttingDown,
                   begun, completed, stopVars, db, req>>

\* passportConfig.initialize() resolves: the auth-state middleware, the
\* routes and the error handlers are installed and start() returns this.app
PassportResolve ==
    /\ startPc = "awaitPassport"
    /\ stack' = stack \o SetupPassport \o SetupRoutes(config) \o SetupErrorHandling
    /\ begun' = begun \cup {"routes", "errors"}
    /\ completed' = completed \cup {"passport", "routes", "errors"}
    /\ startPc' = "done"
    /\ UNCHANGED <<config, corsVars, connections, isShuttingDown, startErr,
                   stopVars, db, req>>

(***************************************************************************)
(* Requests: the walk of one request through the installed stages.  Paths  *)
(* are sequences of segments ("/" is the empty sequence).                  *)
(***************************************************************************)
\* `${apiPrefix}/${apiVersion}` with the defaults '/api' and 'v1'
ApiMount == <<"api", "v1">>
\* the routers mounted on apiRouter
ApiResources ==
    {"auth", "users", "teams", "departments", "organizations", "projects",
     "services", "events", "case-studies", "blog", "newsletter", "contact"}

IsPrefix(p, path) == Len(p) <= Len(path) /\ SubSeq(path, 1, Len(p)) = p

\* the files express.static finds under its root
StaticFiles == {<<"public", "logo.png">>}

\* res.end(), directly or through res.json()
End(q, status, bodyStatus, by) ==
    [q EXCEPT !.st = "ended", !.endCalls = @ + 1, !.status = status,
              !.bodyStatus = bodyStatus, !.by = by]

\* new AppError(`Can't find ${req.originalUrl} on this server!`, 404)
NotFoundError(q) ==
    [name |-> "AppError", status |-> 404,
     message |-> <<"Can't find ">> \o q.path \o <<" on this server!">>]

\* new Error('Not allowed by CORS')
CorsRejection == [name |-> "Error", status |-> 0, message |-> <<CorsError.error>>]

\* the status the terminal error handler answers an error with
ErrorHandlerStatus(err) == IF err.status # 0 THEN err.status ELSE 500

\* (req, res) => { res.status(dbStatus.ready ? 200 : 503).json({...}) }
\* dbReady records what Database.getStatus().ready was
HealthAlwaysOk(q, ready) ==
    [End(q, 200, IF ready THEN "healthy" ELSE "unhealthy", "GET /health")
        EXCEPT !.dbReady = IF ready THEN "ready" ELSE "notReady"]

Health(q, ready) ==
    [End(q, IF ready THEN 200 ELSE 503,
         IF ready THEN "healthy" ELSE "unhealthy", "GET /health")
        EXCEPT !.dbReady = IF ready THEN "ready" ELSE "notReady"]

\* (req, res, next) => { next(new AppError(..., 404)) }
CatchAllAnswers(q) == End(q, 404, "", "all *")

CatchAll(q) == [q EXCEPT !.err = NotFoundError(q)]

\* The request q runs from stage i of stk until its response is ended, a
\* stage suspends it, or the stack is exhausted (express's final handler).
\* After next(err) only the error handler takes the request.  The cors stage
\* fails a refused origin and answers a preflight (preflightContinue is
\* false); express.static answers a file it finds; the session middleware
\* looks the session up in its store and calls next() later; the handlers
\* of the mounted routers answer later; the other middleware pass the
\* request on.
RECURSIVE Walk(_, _, _, _, _)
Walk(q, i, stk, cfg, ready) ==
    IF i > Len(stk)
    THEN End(q, IF q.err.name = "" THEN 404 ELSE ErrorHandlerStatus(q.err),
             "", "finalhandler")
    ELSE LET name == stk[i]
             next == Walk(q, i + 1, stk, cfg, ready)
         IN
         IF q.err.name # ""
         THEN IF name = "errorHandler"
              THEN End(q, ErrorHandlerStatus(q.err), "error", "errorHandler")
              ELSE next
         ELSE CASE name = "cors" ->
                     IF ~CorsOrigin(q.origin, cfg).allow
                     THEN Walk([q EXCEPT !.err = CorsRejection], i + 1, stk, cfg, ready)
                     ELSE IF q.method = "OPTIONS"
                          THEN End(q, 204, "", "cors")
                          ELSE next
                [] name \in {"static:/uploads", "static:/public"} ->
                     IF q.method = "GET" /\ q.path \in StaticFiles
                        /\ IsPrefix(<<IF name = "static:/uploads" THEN "uploads"
                                      ELSE "public">>, q.path)
                     THEN End(q, 200, "", name)
                     ELSE next
                [] name = "session" ->
                     [q EXCEPT !.st = "suspended", !.idx = i]
                [] name = "track" ->
                     Walk([q EXCEPT !.listener = TRUE], i + 1, stk, cfg, ready)
                [] name = "api" ->
                     IF /\ IsPrefix(ApiMount, q.path)
                        /\ Len(q.path) > Len(ApiMount)
                        /\ q.path[Len(ApiMount) + 1] \in ApiResources
                     THEN [q EXCEPT !.st = "handling", !.idx = i]
                     ELSE next
                [] name = "docs" ->
                     IF IsPrefix(<<"docs">>, q.path)
                     THEN [q EXCEPT !.st = "handling", !.idx = i]
                     ELSE next
                [] name = "GET /health" ->
                     IF q.method = "GET" /\ q.path = <<"health">>
                     THEN Health(q, ready)
                     ELSE next
                [] name = "GET /session-check" ->
                     IF q.method = "GET" /\ q.path = <<"session-check">>
                     THEN End(q, 200, "", name)
                     ELSE next
                [] name = "GET /session-debug" ->
                     IF q.method = "GET" /\ q.path = <<"session-debug">>
                     THEN End(q, 200, "", name)
                     ELSE next
                [] name = "GET /" ->
                     IF q.method = "GET" /\ q.path = <<>>
                     THEN End(q, 200, "", name)
                     ELSE next
                [] name = "all *" ->
                     Walk(CatchAll(q), i + 1, stk, cfg, ready)
                [] name = "notFoundHandler" ->
                     End(q, 404, "error", "notFoundHandler")
                [] OTHER -> next

\* Set.prototype.add / Set.prototype.delete on the insertion-ordered set
SetAdd(set, x) ==
    IF \E i \in 1..Len(set) : set[i] = x THEN set ELSE Append(set, x)
SetDelete(set, x) == SelectSeq(set, LAMBDA y : y # x)

\* the connection tracking stage, were it to skip the add during shutdown
TrackUnlessShuttingDown(set, r, before, after) ==
    IF after.listener /\ ~before.listener /\ ~isShuttingDown
    THEN SetAdd(set, r)
    ELSE set

\* the connection tracking stage: this.connections.add(res) when the walk
\* passed it
Track(set, r, before, after) ==
    IF after.listener /\ ~before.listener THEN SetAdd(set, r) ELSE set

\* a request arrives at the application that start() returned (the caller
\* of start() listens with the Express application it resolves to); the
\* lowest free response handle serves it
ReqArrive(r, method, path, origin, ready) ==
    /\ req[r].st = "none"
    /\ \A o \in Requests : o < r => req[o].st # "none"
    /\ startPc = "done"
    /\ LET q == [NoRequest EXCEPT !.method = method, !.path = path,
                                  !.origin = origin]
           after == Walk(q, 1, stack, config, ready)
       IN /\ req' = [req EXCEPT ![r] = after]
          /\ connections' = Track(connections, r, q, after)
    /\ UNCHANGED <<config, corsVars, stack, isShuttingDown, startVars,
                   stopVars, db>>

\* the asynchronous stage that suspended the request calls next()
ReqResume(r, ready) ==
    /\ req[r].st = "suspended"
    /\ LET q == [req[r] EXCEPT !.st = "none"]
           after == Walk(q, req[r].idx + 1, stack, config, ready)
       IN /\ req' = [req EXCEPT ![r] = after]
          /\ connections' = Track(connections, r, q, after)
    /\ UNCHANGED <<config, corsVars, stack, isShuttingDown, startVars,
                   stopVars, db>>

\* the asynchronous route handler of a mounted router answers
ReqRespond(r) ==
    /\ req[r].st = "handling"
    /\ req' = [req EXCEPT ![r] = End(@, 200, "", stack[@.idx])]
    /\ UNCHANGED <<config, corsVars, stack, connections, isShuttingDown,
                   startVars, stopVars, db>>

\* res.on('finish', () => { this.connections.delete(res) })
OnFinish(set, q, r) == IF q.listener THEN SetDelete(set, r) ELSE set

\* the response has been handed to the operating system: 'finish' is emitted
\* and the response handle is done with
ReqFinish(r) ==
    /\ req[r].st = "ended"
    /\ req' = [req EXCEPT ![r] = NoRequest]
    /\ connections' = OnFinish(connections, req[r], r)
    /\ UNCHANGED <<config, corsVars, stack, isShuttingDown, startVars,
                   stopVars, db>>

\* the client closes the connection before the response is ended: 'close'
\* is emitted, 'finish' never is
ReqAbort(r) ==
    /\ req[r].st \in {"suspended", "handling"}
    /\ req' = [req EXCEPT ![r].st = "aborted"]
    /\ UNCHANGED <<config, corsVars, stack, connections, isShuttingDown,
                   startVars, stopVars, db>>


(***************************************************************************)
(* Shutdown: stop().                                                       *)
(***************************************************************************)
\* connection.end() called by stop() on a tracked response handle
EndByStop(q) ==
    IF q.st = "handling"
    THEN End(q, 200, "", "stop")
    ELSE [q EXCEPT !.endCalls = @ + 1]

\* if (this.isShuttingDown) { logger.warn(...); return; }
AlreadyShuttingDownIgnored(flag) == FALSE

AlreadyShuttingDown(flag) == flag

\* this.isShuttingDown after stop() failed
FlagAfterFailureReset(flag) == FALSE

FlagAfterFailure(flag) == flag

\* Database.close() follows the loop inside the try block: it is invoked
\* only when no end() threw
CloseInvokedBeforeLoop(throwAt) == TRUE

CloseInvoked(throwAt) == throwAt = 0

\* stop() is called.  When the flag is set it warns and returns.  Otherwise
\* it sets the flag and calls end() on the tracked connections in insertion
\* order; throwAt = 0 when no end() throws, else the position of the
\* connection whose end() throws.  After the loop it invokes
\* Database.close() and awaits it.
StopCall(c, throwAt) ==
    /\ stopPc[c] = "idle"
    /\ c > 1 => stopPc[c - 1] # "idle"
    /\ IF AlreadyShuttingDown(isShuttingDown)
       THEN /\ throwAt = 0
            /\ stopPc' = [stopPc EXCEPT ![c] = "noop"]
            /\ UNCHANGED <<isShuttingDown, req, db, stopErr>>
       ELSE /\ throwAt \in 0..Len(connections)
            /\ LET n == IF throwAt = 0 THEN Len(connections) ELSE throwAt
                   called == {connections[i] : i \in 1..n}
               IN req' = [r \in Requests |->
                            IF r \in called THEN EndByStop(req[r]) ELSE req[r]]
            /\ db' = IF CloseInvoked(throwAt)
                     THEN [db EXCEPT !.closeCalls = @ + 1]
                     ELSE db
            /\ IF throwAt = 0
               THEN /\ isShuttingDown' = TRUE
                    /\ stopPc' = [stopPc EXCEPT ![c] = "awaitClose"]
                    /\ UNCHANGED stopErr
               ELSE /\ isShuttingDown' = FlagAfterFailure(TRUE)
                    /\ stopPc' = [stopPc EXCEPT ![c] = "failed"]
                    /\ stopErr' = [stopErr EXCEPT ![c] = "end"]
    /\ UNCHANGED <<config, corsVars, stack, connections, startVars>>

\* Database.close() resolves: stop() logs and returns
CloseResolve(c) ==
    /\ stopPc[c] = "awaitClose"
    /\ stopPc' = [stopPc EXCEPT ![c] = "returned"]
    /\ UNCHANGED <<config, corsVars, stack, connections, isShuttingDown,
                   startVars, stopErr, db, req>>

\* Database.close() rejects: stop() logs and rethrows
CloseReject(c) ==
    /\ stopPc[c] = "awaitClose"
    /\ stopPc' = [stopPc EXCEPT ![c] = "failed"]
    /\ stopErr' = [stopErr EXCEPT ![c] = "close"]
    /\ isShuttingDown' = FlagAfterFailure(isShuttingDown)
    /\ UNCHANGED <<config, corsVars, stack, connections, startVars, db, req>>

(***************************************************************************)
(* The lifecycle specification: start and stop calls, and requests served  *)
(* by the application that start returned.                                 *)
(***************************************************************************)
OtherOrigin == Str(<<"f", "t", "p">> \o Sep \o AppHost)

RequestInputs ==
    {[method |-> "GET", path |-> <<"health">>, origin |-> Undefined],
     [method |-> "POST", path |-> <<"health">>, origin |-> Undefined],
     [method |-> "GET", path |-> <<"api", "v1", "users">>, origin |-> Undefined],
     [method |-> "GET", path |-> <<"api", "v1", "nope">>, origin |-> Undefined],
     [method |-> "GET", path |-> <<"public", "logo.png">>, origin |-> Undefined],
     [method |-> "OPTIONS", path |-> <<"does-not-exist">>, origin |-> Undefined],
     [method |-> "GET", path |-> <<"does-not-exist">>, origin |-> Undefined],
     [method |-> "GET", path |-> <<"does-not-exist">>, origin |-> OtherOrigin]}

Init ==
    /\ config = DefaultConfig
    /\ corsOrigin = Undefined
    /\ corsCallback = [called |-> FALSE, error |-> "", allow |-> FALSE]
    /\ InitApplication

Next ==
    \/ StartCall
    \/ ConnectReject
    \/ \E ok \in BOOLEAN : ConnectResolve(ok)
    \/ PassportReject
    \/ PassportResolve
    \/ \E r \in Requests, in \in RequestInputs, ready \in BOOLEAN :
          ReqArrive(r, in.method, in.path, in.origin, ready)
    \/ \E r \in Requests, ready \in BOOLEAN : ReqResume(r, ready)
    \/ \E r \in Requests : ReqRespond(r)
    \/ \E r \in Requests : ReqFinish(r)
    \/ \E r \in Requests : ReqAbort(r)
    \/ \E c \in StopCalls, throwAt \in 0..MaxRequests : StopCall(c, throwAt)
    \/ \E c \in StopCalls : CloseResolve(c)
    \/ \E c \in StopCalls : CloseReject(c)

Spec == Init /\ [][Next]_vars


(***************************************************************************)
(* C2: stop is idempotent.  Of all the calls of stop, in any interleaving  *)
(* (also a call made while an earlier one awaits Database.close), exactly  *)
(* one performs the shutdown; every other call only warns and returns,     *)
(* changing nothing; Database.close is invoked at most once.               *)
(***************************************************************************)
Effective == {"awaitClose", "returned", "failed"}
EffectiveStops == {c \in StopCalls : stopPc[c] \in Effective}
Called(c) == stopPc[c] = "idle" /\ stopPc'[c] # "idle"

C2_StopIdempotent ==
    [][/\ db'.closeCalls <= 1
       /\ Cardinality(EffectiveStops') <= 1
       /\ \A c \in StopCalls :
            Called(c) =>
                IF EffectiveStops = {}
                THEN stopPc'[c] \in Effective /\ isShuttingDown'
                ELSE /\ stopPc'[c] = "noop"
                     /\ UNCHANGED <<isShuttingDown, connections, req, db, stopErr>>]_vars

\* a second call was made while the first awaits Database.close
C2_Witness ==
    \E c, d \in StopCalls :
        stopPc[c] = "awaitClose" /\ stopPc[d] = "noop" /\ db.closeCalls = 1

(***************************************************************************)
(* C3: the size of the connections set equals, at every point, the number  *)
(* of requests that have started and not yet finished (requests still in   *)
(* a stage before the tracking stage and aborted responses included).      *)
(***************************************************************************)
Unfinished == {r \in Requests : req[r].st \in {"suspended", "handling", "ended", "aborted"}}

C3_ConnectionSetSize == Len(connections) = Cardinality(Unfinished)

(***************************************************************************)
(* C4: startup ordering.  passportConfig.initialize is not invoked before  *)
(* Database.connect has resolved, the routes are not mounted before        *)
(* setupMiddleware has completed, every stage is entered only after all    *)
(* the stages before it were left, and so no two stages are in progress    *)
(* together.                                                               *)
(***************************************************************************)
StartupOrder == <<"connect", "middleware", "passport", "routes", "errors">>

C4_StartupOrdering ==
    /\ "passport" \in begun => "connect" \in completed
    /\ "routes" \in begun => "middleware" \in completed
    /\ \A i, j \in 1..Len(StartupOrder) :
          i < j /\ StartupOrder[j] \in begun => StartupOrder[i] \in completed
    /\ Cardinality(begun \ completed) <= 1
    /\ (\E i \in 1..Len(stack) : stack[i] \in RouteStages) =>
          IsPrefix(SetupMiddleware(config), stack)

C4_Witness ==
    /\ startPc = "done"
    /\ begun = {"connect", "middleware", "passport", "routes", "errors"}
    /\ \E i \in 1..Len(stack) : stack[i] \in RouteStages

(***************************************************************************)
(* C5: a failing startup aborts and propagates the error.  When            *)
(* Database.connect rejects, start rethrows that error and nothing has     *)
(* been installed on the application; when the authentication bootstrap    *)
(* rejects, start rethrows that error and no route, no error handler and   *)
(* no auth-state middleware has been installed.                            *)
(***************************************************************************)
ConnectRejected == "connect" \in begun \ completed /\ startPc # "awaitConnect"
PassportRejected == "passport" \in begun \ completed /\ startPc # "awaitPassport"
Installed(names) == \E i \in 1..Len(stack) : stack[i] \in names

C5_StartupFailureAborts ==
    /\ ConnectRejected =>
          /\ startPc = "failed" /\ startErr = "connect"
          /\ stack = <<>>
          /\ begun = {"connect"}
    /\ PassportRejected =>
          /\ startPc = "failed" /\ startErr = "passport"
          /\ ~Installed(RouteStages \cup ErrorStages \cup {"authState"})
          /\ begun = {"connect", "middleware", "passport"}

C5_Witness == PassportRejected /\ startErr = "passport" /\ stack # <<>>

(***************************************************************************)
(* C6: shutdown errors.  When ending a connection or closing the           *)
(* datastore throws, stop rethrows the error; the shutdown flag stays set  *)
(* (no step ever resets it), and every later call of stop is a no-op that  *)
(* repeats none of the cleanup.                                            *)
(***************************************************************************)
FailedStops == {c \in StopCalls : stopPc[c] = "failed"}

C6_ShutdownErrors ==
    [][/\ isShuttingDown => isShuttingDown'
       /\ \A c \in FailedStops' : stopErr'[c] \in {"end", "close"} /\ isShuttingDown'
       /\ \A c \in StopCalls :
            Called(c) /\ FailedStops # {} =>
                /\ stopPc'[c] = "noop"
                /\ UNCHANGED <<isShuttingDown, connections, req, db>>]_vars

\* end() threw in the first call and a later call returned as a no-op
C6_Witness ==
    \E c, d \in StopCalls :
        /\ stopPc[c] = "failed" /\ stopErr[c] = "end"
        /\ stopPc[d] = "noop"
        /\ db.closeCalls = 0

(***************************************************************************)
(* C7: the lifecycle only moves uninitialized -> starting -> running ->    *)
(* stopping -> stopped, or from starting or stopping to error, which is    *)
(* terminal.                                                               *)
(***************************************************************************)
Lifecycle ==
    IF \E c \in StopCalls : stopPc[c] = "failed" THEN "error"
    ELSE IF \E c \in StopCalls : stopPc[c] = "awaitClose" THEN "stopping"
    ELSE IF \E c \in StopCalls : stopPc[c] = "returned" THEN "stopped"
    ELSE CASE startPc = "idle" -> "uninitialized"
           [] startPc \in {"awaitConnect", "awaitPassport"} -> "starting"
           [] startPc = "done" -> "running"
           [] startPc = "failed" -> "error"

LifecycleSteps ==
    {<<"uninitialized", "starting">>, <<"starting", "running">>,
     <<"running", "stopping">>, <<"stopping", "stopped">>,
     <<"starting", "error">>, <<"stopping", "error">>}

C7_LifecycleTransitions ==
    [][Lifecycle' = Lifecycle \/ <<Lifecycle, Lifecycle'>> \in LifecycleSteps]_vars

(***************************************************************************)
(* C8: no connection is double-closed: end() is applied to each response   *)
(* handle at most once, whether by its route handler or by stop.           *)
(***************************************************************************)
C8_NoDoubleEnd == \A r \in Requests : req[r].endCalls <= 1

(***************************************************************************)
(* C9: GET /health answers 200 and 'healthy' when Database.getStatus()     *)
(* reports ready, and 503 and 'unhealthy' when it does not.                *)
(***************************************************************************)
C9_Health ==
    \A r \in Requests :
        req[r].by = "GET /health" =>
            /\ req[r].dbReady = "ready" =>
                  req[r].status = 200 /\ req[r].bodyStatus = "healthy"
            /\ req[r].dbReady # "ready" =>
                  req[r].status = 503 /\ req[r].bodyStatus = "unhealthy"

C9_Witness ==
    \E r \in Requests :
        /\ req[r].by = "GET /health"
        /\ req[r].dbReady = "notReady"
        /\ req[r].status = 503

(***************************************************************************)
(* C10: a request of any method and path that passes the pipeline and      *)
(* matches no mounted route is turned into an error of status 404 whose    *)
(* message holds the request path, and the error goes to the terminal      *)
(* error handler; the request is not answered by the catch-all itself.     *)
(***************************************************************************)
MatchesRoute(method, path) ==
    \/ IsPrefix(ApiMount, path) /\ Len(path) > Len(ApiMount)
          /\ path[Len(ApiMount) + 1] \in ApiResources
    \/ IsPrefix(<<"docs">>, path)
    \/ method = "GET" /\ path \in {<<"health">>, <<"session-check">>, <<>>}
    \/ method = "GET" /\ path = <<"session-debug">> /\ config.env = "development"

Contains(message, path) ==
    \E i \in 0..(Len(message) - Len(path)) :
        SubSeq(message, i + 1, i + Len(path)) = path

OffListDevOrigin ==
    /\ corsCallback.called
    /\ corsOrigin.defined
    /\ corsOrigin.chars # <<>>
    /\ \A i \in 1..Len(AllowedOrigins(config.cors.origins)) :
          Trim(corsOrigin.chars) # Trim(AllowedOrigins(config.cors.origins)[i])
    /\ DevOriginForm(Trim(corsOrigin.chars))

\* C11 as stated: in every environment other than production an off-list
\* origin of a localhost, loopback or 10.0.0.N form, on any port, is allowed.
C11_NonProductionFallback ==
    OffListDevOrigin /\ config.env # "production" => corsCallback.allow

\* C11: an off-list origin of a localhost, loopback or 10.0.0.N form, on any
\* port, is allowed when the environment is 'development' and is refused
\* with 'Not allowed by CORS' in every other environment, 'test' included.
C11_DevelopmentFallback ==
    OffListDevOrigin =>
        /\ corsCallback.allow <=> config.env = "development"
        /\ ~corsCallback.allow <=> corsCallback.error = "Not allowed by CORS"

\* http(s)://localhost:<port> off the allow-list: allowed in development
C11_Witness ==
    /\ OffListDevOrigin
    /\ config.env = "development"
    /\ corsCallback.allow
    /\ \E scheme \in {Http, Https} : \E d \in DigitStrings :
          d # <<>> /\ Trim(corsOrigin.chars) = scheme \o Sep \o Localhost \o <<":">> \o d

(***************************************************************************)
(* C12: the order of an effective stop.  It sets the shutdown flag, then   *)
(* calls end() on the response handles that are in the connections set at  *)
(* that moment, and touches no other handle; Database.close is invoked     *)
(* only by an effective stop, and only when end() has been called on every *)
(* handle that was in the set.                                             *)
(***************************************************************************)
EndedByStep(r) == req'[r].endCalls = req[r].endCalls + 1

C12_StopOrder ==
    [][/\ db'.closeCalls # db.closeCalls =>
             \E c \in StopCalls : Called(c) /\ ~isShuttingDown
       /\ \A c \in StopCalls :
            Called(c) /\ ~isShuttingDown =>
                /\ isShuttingDown'
                /\ connections' = connections
                /\ \A r \in Requests :
                      req'[r] # req[r] =>
                          /\ \E i \in 1..Len(connections) : connections[i] = r
                          /\ EndedByStep(r)
                /\ db'.closeCalls # db.closeCalls =>
                      /\ db'.closeCalls = db.closeCalls + 1
                      /\ \A i \in 1..Len(connections) : EndedByStep(connections[i])]_vars

\* Database.close was invoked after stop had called end() on two tracked
\* handles, one of which it ended
C12_Witness ==
    /\ isShuttingDown
    /\ db.closeCalls = 1
    /\ \E c \in StopCalls : stopPc[c] = "awaitClose"
    /\ Len(connections) >= 2
    /\ \A i \in 1..Len(connections) : req[connections[i]].endCalls >= 1
    /\ \E i \in 1..Len(connections) : req[connections[i]].by = "stop"

(***************************************************************************)
(* The pipeline under every configuration: one call of start() and one     *)
(* request at a time, for each setting of the flags setupMiddleware() and  *)
(* setupRoutes() read.                                                     *)
(***************************************************************************)
PipelineConfigs ==
    {[DefaultConfig EXCEPT !.env = e,
                           !.helmet.enabled = h,
                           !.cors.enabled = c,
                           !.sanitize.enabled = s,
                           !.logging.enabled = l,
                           !.session.idleTimeout = t] :
        e \in EnvInputs, h \in BOOLEAN, c \in BOOLEAN, s \in BOOLEAN,
        l \in BOOLEAN, t \in BOOLEAN}

PipelineInputs ==
    {[method |-> "GET", path |-> <<"health">>, origin |-> Undefined],
     [method |-> "GET", path |-> <<"api", "v1", "users">>, origin |-> Undefined],
     [method |-> "GET", path |-> <<"session-debug">>, origin |-> Undefined]}

InitPipeline ==
    /\ config \in PipelineConfigs
    /\ corsOrigin = Undefined
    /\ corsCallback = [called |-> FALSE, error |-> "", allow |-> FALSE]
    /\ InitApplication

NextPipeline ==
    \/ StartCall
    \/ ConnectReject
    \/ \E ok \in BOOLEAN : ConnectResolve(ok)
    \/ PassportReject
    \/ PassportResolve
    \/ \E in \in PipelineInputs, ready \in BOOLEAN :
          ReqArrive(1, in.method, in.path, in.origin, ready)
    \/ \E ready \in BOOLEAN : ReqResume(1, ready)
    \/ ReqRespond(1)
    \/ ReqFinish(1)

SpecPipeline == InitPipeline /\ [][NextPipeline]_vars

(***************************************************************************)
(* C13: pipeline order.  For every configuration the enabled stages are    *)
(* registered in the order security headers, CORS, body parsing,           *)
(* sanitization, cookie parsing, compression, method override, static      *)
(* assets, request logging, session, flash, session security/activity,     *)
(* idle timeout, connection tracking, then the authentication bootstrap    *)
(* and its auth-state stage, then the routes, then the not-found and       *)
(* error handlers; a request is at or answered by a route handler only     *)
(* after every enabled stage before the routes, in that order.             *)
(***************************************************************************)
PipelineOrder ==
    <<{"helmet"}, {"cors"}, {"json", "urlencoded"}, {"mongoSanitize"},
      {"cookieParser"}, {"compression"},
      {"methodOverride:_method", "methodOverride:header"},
      {"static:/uploads", "static:/public"}, {"httpLogger", "morgan"},
      {"session"}, {"flash", "flashLocals"},
      {"sessionSecurity", "sessionActivity"}, {"idleTimeout"}, {"track"},
      {"passport"}, {"authState"},
      {"api", "docs", "GET /health", "GET /session-check",
       "GET /session-debug", "GET /", "all *"},
      {"notFoundHandler", "errorHandler"}>>

AllStages == UNION {PipelineOrder[k] : k \in 1..Len(PipelineOrder)}
Rank(name) == CHOOSE k \in 1..Len(PipelineOrder) : name \in PipelineOrder[k]
RouteRank == Rank("api")

EnabledStage(name, cfg) ==
    CASE name = "helmet" -> cfg.helmet.enabled
      [] name = "cors" -> cfg.cors.enabled
      [] name = "mongoSanitize" -> cfg.sanitize.enabled
      [] name = "httpLogger" -> cfg.logging.enabled
      [] name = "morgan" -> cfg.logging.enabled /\ cfg.env = "development"
      [] name = "idleTimeout" -> cfg.session.idleTimeout
      [] name = "GET /session-debug" -> cfg.env = "development"
      [] OTHER -> TRUE

\* the route stage that holds the request or answered it, if any
AtRoute(q) ==
    IF q.st = "handling" THEN {stack[q.idx]}
    ELSE IF q.by \in AllStages /\ Rank(q.by) = RouteRank THEN {q.by}
    ELSE {}

C13_PipelineOrder ==
    /\ \A i \in 1..Len(stack) :
          /\ stack[i] \in AllStages
          /\ EnabledStage(stack[i], config)
          /\ \A j \in 1..Len(stack) :
                i < j => stack[i] # stack[j] /\ Rank(stack[i]) <= Rank(stack[j])
    /\ startPc = "done" =>
          \A name \in AllStages :
              EnabledStage(name, config) => \E i \in 1..Len(stack) : stack[i] = name
    /\ \A r \in Requests : \A route \in AtRoute(req[r]) :
          /\ Rank(route) = RouteRank
          /\ req[r].listener
          /\ \E k \in 1..Len(stack) :
                /\ stack[k] = route
                /\ \A name \in AllStages :
                      EnabledStage(name, config) /\ Rank(name) < RouteRank =>
                          \E i \in 1..(k - 1) : stack[i] = name

\* in production, with helmet and sanitization off and the idle timeout on,
\* a request is with a handler of the api router
C13_Witness ==
    /\ config.env = "production"
    /\ ~config.helmet.enabled
    /\ ~config.sanitize.enabled
    /\ config.cors.enabled
    /\ config.session.idleTimeout
    /\ startPc = "done"
    /\ \E r \in Requests :
          req[r].st = "handling" /\ stack[req[r].idx] = "api" /\ req[r].listener

(***************************************************************************)
(* C14: the tracking stage does not consult the shutdown flag.  A request  *)
(* that reaches the tracking stage is added to the connections set also    *)
(* when isShuttingDown is set; once the flag is set, stop ends no response *)
(* any more; a handle leaves the set only by its own 'finish'.  So the set *)
(* can be non-empty when stop returns.                                     *)
(***************************************************************************)
InSet(set, r) == \E i \in 1..Len(set) : set[i] = r

C14_TrackingIgnoresShutdown ==
    [][\A r \in Requests :
          /\ ~req[r].listener /\ req'[r].listener => InSet(connections', r)
          /\ isShuttingDown /\ req'[r].by = "stop" => req[r].by = "stop"
          /\ InSet(connections, r) /\ ~InSet(connections', r) =>
                req[r].st = "ended" /\ req'[r] = NoRequest]_vars

\* stop has returned after a loop that ended every tracked handle, and the
\* set holds a request no end() was called on: it passed the tracking stage
\* after the loop
C14_Witness ==
    /\ isShuttingDown
    /\ \E c \in StopCalls : stopPc[c] = "returned"
    /\ \E r \in Requests :
          /\ InSet(connections, r)
          /\ req[r].st = "handling"
          /\ req[r].listener
          /\ req[r].endCalls = 0


====
